---- MODULE Spec2Model ----
(***************************************************************************)
(* The HTTP surface of byemail (src/byemail/httpserver.py): the session    *)
(* middlewares, login/logout, and the session-protected routes over the    *)
(* storage and mail-sending collaborators.                                 *)
(*                                                                         *)
(* A request is a coroutine.  One step of a request runs the code from one *)
(* await to the next (asyncio never preempts between two awaits); the      *)
(* storage call the step ends on takes effect in that step.  Several       *)
(* requests are in flight at once and their steps interleave.              *)
(*                                                                         *)
(* A server-side session is a dict; the only entry this code reads or      *)
(* writes is the auth entry (the account name), so a session is modelled   *)
(* by that entry, None for a session without it.                           *)
(***************************************************************************)
EXTENDS Integers, FiniteSets, Sequences, TLC

\* ---------------------------------------------------------------- bounds
MaxKeys == 2          \* session keys gen_session_key hands out in a run

\* ------------------------------------------------------------- constants
None == "none"
Accounts == {"alice", "bob"}
Keys == 1..MaxKeys
NoKey == 0            \* request.cookies.get('session_key') is None
ForgedKey == -1       \* a session_key the server never issued
AllKeys == Keys \cup {ForgedKey}
Reqs == {1, 2}         \* the requests that can be in flight at once
MailIds == {1, 2}
MailboxIds == {1, 2}

NoJson == [name |-> None, password |-> None]
NoRes == [account |-> None]
NoBody == [kind |-> None, id |-> 0, owner |-> None]

\* The request bodies a client posts to /login.
Credentials ==
    { [name |-> "alice", password |-> "pw_alice"],
      [name |-> "alice", password |-> "pw_bob"],
      [name |-> "bob",   password |-> "pw_bob"] }

Protected ==
    { "logout", "account", "mailboxes", "mailbox", "mail", "mail_mark_read",
      "mail_download_attachment", "sendmail", "mail_resend", "contacts_search" }
Routes == Protected \cup {"login", "index"}

VARIABLES
    sessions,     \* storage: session_key -> the session's account name
    mails,        \* storage: mail id -> mail
    mailboxes_db, \* storage: mailbox id -> mailbox
    reqs,         \* the requests in flight: slot -> request and its locals
    nextKey,      \* how many keys gen_session_key has returned, plus one
    issuer,       \* history: key -> who generated it
    issuedFor,    \* history: key -> the account a login generated it for
    delivered,    \* history: keys a response carried to a client
    loggedOut     \* history: keys a successful /logout was made with

vars == << sessions, mails, mailboxes_db, reqs, nextKey, issuer, issuedFor,
           delivered, loggedOut >>

IdleReq ==
    [ pc |-> "idle", route |-> None, cookie |-> NoKey, id |-> 0,
      json |-> NoJson, text |-> "", session |-> None, account |-> None,
      res |-> NoRes, key |-> NoKey, status |-> 0, body |-> NoBody,
      set_cookie |-> NoKey, touched |-> FALSE, effect |-> None,
      raced |-> FALSE ]

\* Fields of a request beyond its inputs (route, cookie, id, json, text):
\*   session, account, res, key   the handler's locals
\*   status, body, set_cookie     the response
\*   touched   history: the handler body made a storage call or a mail send
\*   effect    history: "update", "send" or "resend" once the handler called
\*             storage.update_mail, send_mail or resend_mail
\*   raced     history: the stored mail differed from the copy read when
\*             update_mail ran

\* ------------------------------------------------- collaborators (storage)
\* account_manager.authenticate(credentials): the account, or None.
authenticate(credentials) ==
    IF credentials.password = "pw_" \o credentials.name
    THEN credentials.name ELSE None

\* storage.get_user_session(session_key): a copy of the stored session, the
\* empty session for a key nothing was saved under.
get_user_session(session_key) == sessions[session_key]

\* storage.save_user_session(session_key, session)
save_user_session(session_key, session) ==
    [sessions EXCEPT ![session_key] = session]

get_mail(mail_id) == mails[mail_id]
get_mailbox(mailbox_id) == mailboxes_db[mailbox_id]
update_mail(mail_id, mail) == [mails EXCEPT ![mail_id] = mail]

\* ------------------------------------------------------ httpserver.py
gen_session_key_reused(n) == 1

\* uuid.uuid4().hex: a value no earlier call returned.
gen_session_key(n) == n

\* Forbidden("This route need authentification")
handle_no_auth == [kind |-> "need_auth", id |-> 0, owner |-> None]

\* auth.current_user: the user_loader (account_manager.get) applied to the
\* session's auth entry.
current_user(session) == session

add_session_to_request_blind(session_key) == None

\* The request middleware: the session the handlers see.
add_session_to_request(session_key) ==
    IF session_key # NoKey THEN get_user_session(session_key) ELSE None

add_session_key_to_response_always(auth_key, resp_key) == TRUE

\* The response middleware: whether it sets a default session key.
add_session_key_to_response(auth_key, resp_key) ==
    auth_key = NoKey /\ resp_key = NoKey

Inputs(route) ==
    CASE route = "login" ->
           { [id |-> 0, json |-> c, text |-> ""] : c \in Credentials }
      [] route = "mailbox" ->
           { [id |-> i, json |-> NoJson, text |-> ""] : i \in MailboxIds }
      [] route \in {"mail", "mail_mark_read", "mail_download_attachment",
                    "mail_resend"} ->
           { [id |-> i, json |-> NoJson, text |-> ""] : i \in MailIds }
      [] route = "contacts_search" ->
           { [id |-> 0, json |-> NoJson, text |-> t] : t \in {"", "q"} }
      [] OTHER -> { [id |-> 0, json |-> NoJson, text |-> ""] }

\* A request arrives and the request middleware gives it its session.
Request(r, route, cookie, in) ==
    /\ reqs[r].pc \in {"idle", "done"}
    /\ reqs' = [reqs EXCEPT ![r] =
                 [IdleReq EXCEPT !.pc = "handler", !.route = route,
                                 !.cookie = cookie, !.id = in.id,
                                 !.json = in.json, !.text = in.text,
                                 !.session = add_session_to_request(cookie)]]
    /\ UNCHANGED << sessions, mails, mailboxes_db, nextKey, issuer, issuedFor,
                    delivered, loggedOut >>

\* The handler of request req returns (or raises): the response middleware
\* runs, and the response goes to the client.  resp_key is the cookie the
\* handler set, n the key counter and iss the issuers after the handler.
Respond(r, req, status, body, resp_key, n, iss) ==
    LET fresh == add_session_key_to_response(req.cookie, resp_key)
        cookie == IF fresh THEN gen_session_key(n) ELSE resp_key
    IN  /\ fresh => n <= MaxKeys
        /\ reqs' = [reqs EXCEPT ![r] =
                     [req EXCEPT !.pc = "done", !.status = status,
                                 !.body = body, !.set_cookie = cookie]]
        /\ nextKey' = IF fresh THEN n + 1 ELSE n
        /\ issuer' = IF fresh THEN [iss EXCEPT ![cookie] = "middleware"]
                     ELSE iss
        /\ delivered' = IF cookie # NoKey THEN delivered \cup {cookie}
                        ELSE delivered

Forbid(r) ==
    /\ Respond(r, reqs[r], 403, handle_no_auth, NoKey, nextKey, issuer)
    /\ UNCHANGED << sessions, mails, mailboxes_db, issuedFor, loggedOut >>

At(r, route, pc) == reqs[r].route = route /\ reqs[r].pc = pc

\* GET /
index(r) ==
    /\ At(r, "index", "handler")
    /\ Respond(r, reqs[r], 302, [kind |-> "redirect", id |-> 0, owner |-> None],
               NoKey, nextKey, issuer)
    /\ UNCHANGED << sessions, mails, mailboxes_db, issuedFor, loggedOut >>

\* Forbidden("Authentification failed. Check your credentials.")
Failed == [kind |-> "auth_failed", id |-> 0, owner |-> None]

login_granted_always(user) == TRUE

\* `if account:` of login
login_granted(user) == user # None

\* POST /login, to the await of storage.get_user_session
login(r) ==
    LET req == reqs[r]
        user == authenticate(req.json)
        session_key == gen_session_key(nextKey)
    IN  /\ At(r, "login", "handler")
        /\ IF login_granted(user)
           THEN /\ nextKey <= MaxKeys
                /\ reqs' = [reqs EXCEPT ![r] =
                             [req EXCEPT !.pc = "got", !.account = user,
                                         !.key = session_key,
                                         !.res = [account |->
                                             get_user_session(session_key)]]]
                /\ nextKey' = nextKey + 1
                /\ issuer' = [issuer EXCEPT ![session_key] = "login"]
                /\ issuedFor' = [issuedFor EXCEPT ![session_key] = user]
                /\ UNCHANGED << sessions, mails, mailboxes_db, delivered,
                                loggedOut >>
           ELSE /\ Respond(r, req, 403, Failed, NoKey, nextKey, issuer)
                /\ UNCHANGED << sessions, mails, mailboxes_db, issuedFor,
                                loggedOut >>

\* login: session[auth.auth_session_key] = account.name, then the await of
\* storage.save_user_session
login_save(r) ==
    LET req == reqs[r]
        session == [req.res EXCEPT !.account = req.account]
    IN  /\ At(r, "login", "got")
        /\ sessions' = save_user_session(req.key, session.account)
        /\ reqs' = [reqs EXCEPT ![r] = [req EXCEPT !.pc = "acted",
                                                   !.res = session]]
        /\ UNCHANGED << mails, mailboxes_db, nextKey, issuer, issuedFor,
                        delivered, loggedOut >>

\* login: the response, with the session key as its cookie
login_respond(r) ==
    LET req == reqs[r]
    IN  /\ At(r, "login", "acted")
        /\ Respond(r, req, 200,
                   [kind |-> "account", id |-> 0, owner |-> req.account],
                   req.key, nextKey, issuer)
        /\ UNCHANGED << sessions, mails, mailboxes_db, issuedFor, loggedOut >>

login_required_open(session) == TRUE

\* @auth.login_required: the handler runs only for a session with a user.
login_required(session) == current_user(session) # None

\* GET /logout
logout(r) ==
    LET req == reqs[r]
        session_key == gen_session_key(nextKey)
    IN  /\ At(r, "logout", "handler")
        /\ IF login_required(req.session)
           THEN /\ nextKey <= MaxKeys
                /\ Respond(r, [req EXCEPT !.session = None], 200,
                           [kind |-> "ok", id |-> 0, owner |-> None],
                           session_key, nextKey + 1,
                           [issuer EXCEPT ![session_key] = "logout"])
                /\ loggedOut' = loggedOut \cup {req.cookie}
                /\ UNCHANGED << sessions, mails, mailboxes_db, issuedFor >>
           ELSE Forbid(r)

\* GET /api/account
account(r) ==
    LET req == reqs[r]
        user == current_user(req.session)
    IN  /\ At(r, "account", "handler")
        /\ IF login_required(req.session)
           THEN /\ Respond(r, [req EXCEPT !.account = user], 200,
                           [kind |-> "account", id |-> 0, owner |-> user],
                           NoKey, nextKey, issuer)
                /\ UNCHANGED << sessions, mails, mailboxes_db, issuedFor,
                                loggedOut >>
           ELSE Forbid(r)

\* The first step of a handler that starts by reading a resource: the
\* login_required check, then the await of the storage read.
Fetch(r, route, resource) ==
    LET req == reqs[r]
    IN  /\ At(r, route, "handler")
        /\ IF login_required(req.session)
           THEN /\ reqs' = [reqs EXCEPT ![r] =
                             [req EXCEPT !.pc = "got",
                                         !.account = current_user(req.session),
                                         !.res = resource,
                                         !.touched = TRUE]]
                /\ UNCHANGED << sessions, mails, mailboxes_db, nextKey, issuer,
                                issuedFor, delivered, loggedOut >>
           ELSE Forbid(r)

\* A step that ends the request with a response and changes nothing else.
Answer(r, req, status, body) ==
    /\ Respond(r, req, status, body, NoKey, nextKey, issuer)
    /\ UNCHANGED << sessions, mails, mailboxes_db, issuedFor, loggedOut >>

\* Forbidden("You don't have permission ...")
Permission == [kind |-> "no_permission", id |-> 0, owner |-> None]

\* storage.get_mailboxes(account): the mailboxes of the account
get_mailboxes(user) ==
    [ account |-> user,
      messages |-> { i \in MailboxIds : mailboxes_db[i].account = user } ]

\* GET /api/mailboxes
mailboxes(r) ==
    Fetch(r, "mailboxes", get_mailboxes(current_user(reqs[r].session)))

mailboxes_respond(r) ==
    /\ At(r, "mailboxes", "got")
    /\ Answer(r, reqs[r], 200,
              [kind |-> "mailboxes", id |-> 0, owner |-> reqs[r].res.account])

\* mailbox: `if mailbox_to_return['account'] != account.name`
mailbox_forbidden(mailbox_to_return, name) ==
    mailbox_to_return.account # name

\* GET /api/mailbox/<mailbox_id>
mailbox(r) == Fetch(r, "mailbox", get_mailbox(reqs[r].id))

mailbox_respond(r) ==
    LET req == reqs[r]
    IN  /\ At(r, "mailbox", "got")
        /\ IF mailbox_forbidden(req.res, req.account)
           THEN Answer(r, req, 403, Permission)
           ELSE Answer(r, req, 200,
                       [kind |-> "mailbox", id |-> req.id,
                        owner |-> req.res.account])

mail_forbidden_never(mail_to_return, name) == FALSE

\* mail: `if mail_to_return['account'] != account.name`
mail_forbidden(mail_to_return, name) == mail_to_return.account # name

\* GET /api/mail/<mail_id>
mail(r) == Fetch(r, "mail", get_mail(reqs[r].id))

mail_respond(r) ==
    LET req == reqs[r]
    IN  /\ At(r, "mail", "got")
        /\ IF mail_forbidden(req.res, req.account)
           THEN Answer(r, req, 403, Permission)
           ELSE Answer(r, req, 200,
                       [kind |-> "mail", id |-> req.res.content,
                        owner |-> req.res.account])

mark_read_forbidden_never(mail_to_mark, name) == FALSE

\* mail_mark_read: `if mail_to_mark['account'] != account.name`
mark_read_forbidden(mail_to_mark, name) == mail_to_mark.account # name

mark_read_keep(mail_to_mark) == mail_to_mark

\* mail_mark_read: `mail_to_mark['unread'] = False`
mark_read(mail_to_mark) == [mail_to_mark EXCEPT !.unread = FALSE]

\* POST /api/mail/<mail_id>/mark_read
mail_mark_read(r) == Fetch(r, "mail_mark_read", get_mail(reqs[r].id))

\* mail_mark_read after get_mail, to the await of storage.update_mail
mail_mark_read_update(r) ==
    LET req == reqs[r]
        marked == mark_read(req.res)
    IN  /\ At(r, "mail_mark_read", "got")
        /\ IF mark_read_forbidden(req.res, req.account)
           THEN Answer(r, req, 403, Permission)
           ELSE /\ mails' = update_mail(req.id, marked)
                /\ reqs' = [reqs EXCEPT ![r] =
                             [req EXCEPT !.pc = "acted", !.res = marked,
                                         !.effect = "update",
                                         !.raced = (mails[req.id] # req.res)]]
                /\ UNCHANGED << sessions, mailboxes_db, nextKey, issuer,
                                issuedFor, delivered, loggedOut >>

mail_mark_read_respond(r) ==
    LET req == reqs[r]
    IN  /\ At(r, "mail_mark_read", "acted")
        /\ Answer(r, req, 200,
                  [kind |-> "mail", id |-> req.res.content,
                   owner |-> req.res.account])

\* storage.get_mail_attachment(mail_id, att_index): the attachment and its
\* bytes, kept here as the mail they are part of
get_mail_attachment(mail_id) == mails[mail_id]

\* GET /api/mail/<mail_id>/attachment/<att_index>/<filename>
mail_download_attachment(r) ==
    Fetch(r, "mail_download_attachment", get_mail_attachment(reqs[r].id))

mail_download_attachment_stream(r) ==
    LET req == reqs[r]
    IN  /\ At(r, "mail_download_attachment", "got")
        /\ Answer(r, req, 200,
                  [kind |-> "attachment", id |-> req.res.content,
                   owner |-> req.res.account])

\* POST /api/sendmail/, to the await of send_mail
sendmail(r) ==
    LET req == reqs[r]
    IN  /\ At(r, "sendmail", "handler")
        /\ IF login_required(req.session)
           THEN /\ reqs' = [reqs EXCEPT ![r] =
                             [req EXCEPT !.pc = "acted",
                                         !.account = current_user(req.session),
                                         !.touched = TRUE,
                                         !.effect = "send"]]
                /\ UNCHANGED << sessions, mails, mailboxes_db, nextKey, issuer,
                                issuedFor, delivered, loggedOut >>
           ELSE Forbid(r)

sendmail_respond(r) ==
    /\ At(r, "sendmail", "acted")
    /\ Answer(r, reqs[r], 200,
              [kind |-> "result", id |-> 0, owner |-> reqs[r].account])

\* mail_resend: `if mail_to_resend['account'] != account.name`
resend_forbidden(mail_to_resend, name) == mail_to_resend.account # name

\* POST /api/mail/<mail_id>/resend
mail_resend(r) == Fetch(r, "mail_resend", get_mail(reqs[r].id))

\* mail_resend after get_mail, to the await of resend_mail
mail_resend_send(r) ==
    LET req == reqs[r]
    IN  /\ At(r, "mail_resend", "got")
        /\ IF resend_forbidden(req.res, req.account)
           THEN Answer(r, req, 403, Permission)
           ELSE /\ reqs' = [reqs EXCEPT ![r] =
                             [req EXCEPT !.pc = "acted", !.effect = "resend"]]
                /\ UNCHANGED << sessions, mails, mailboxes_db, nextKey, issuer,
                                issuedFor, delivered, loggedOut >>

mail_resend_respond(r) ==
    /\ At(r, "mail_resend", "acted")
    /\ Answer(r, reqs[r], 200,
              [kind |-> "result", id |-> reqs[r].res.content,
               owner |-> reqs[r].res.account])

\* GET /api/contacts/search
contacts_search(r) ==
    LET req == reqs[r]
    IN  /\ At(r, "contacts_search", "handler")
        /\ IF login_required(req.session) /\ req.text = ""
           THEN Answer(r, [req EXCEPT !.account = current_user(req.session)],
                       200, [kind |-> "contacts", id |-> 0, owner |-> None])
           ELSE Fetch(r, "contacts_search",
                      [account |-> current_user(req.session)])

contacts_search_respond(r) ==
    /\ At(r, "contacts_search", "got")
    /\ Answer(r, reqs[r], 200,
              [kind |-> "contacts", id |-> 0, owner |-> reqs[r].res.account])

Init ==
    /\ sessions = [k \in AllKeys |-> None]
    /\ mails = [i \in MailIds |->
                 [account |-> IF i = 1 THEN "alice" ELSE "bob",
                  unread |-> TRUE, content |-> i]]
    /\ mailboxes_db = [i \in MailboxIds |->
                        [account |-> IF i = 1 THEN "alice" ELSE "bob",
                         messages |-> {i}]]
    /\ reqs = [r \in Reqs |-> IdleReq]
    /\ nextKey = 1
    /\ issuer = [k \in Keys |-> None]
    /\ issuedFor = [k \in Keys |-> None]
    /\ delivered = {}
    /\ loggedOut = {}

Free(r) == reqs[r].pc \in {"idle", "done"}

\* The routes whose handlers write the state that requests share: the
\* sessions (login) and the mails (mail_mark_read).
ConcurrentRoutes == {"login", "mail_mark_read"}

\* One request at a time, over every route.
Next ==
    \/ \E route \in Routes, cookie \in {NoKey, ForgedKey} \cup delivered :
         \E in \in Inputs(route) :
            /\ \A q \in Reqs : Free(q)
            /\ Request(1, route, cookie, in)
    \/ \E r \in Reqs : index(r)
    \/ \E r \in Reqs : login(r)
    \/ \E r \in Reqs : login_save(r)
    \/ \E r \in Reqs : login_respond(r)
    \/ \E r \in Reqs : logout(r)
    \/ \E r \in Reqs : account(r)
    \/ \E r \in Reqs : mailboxes(r)
    \/ \E r \in Reqs : mailboxes_respond(r)
    \/ \E r \in Reqs : mailbox(r)
    \/ \E r \in Reqs : mailbox_respond(r)
    \/ \E r \in Reqs : mail(r)
    \/ \E r \in Reqs : mail_respond(r)
    \/ \E r \in Reqs : mail_mark_read(r)
    \/ \E r \in Reqs : mail_mark_read_update(r)
    \/ \E r \in Reqs : mail_mark_read_respond(r)
    \/ \E r \in Reqs : mail_download_attachment(r)
    \/ \E r \in Reqs : mail_download_attachment_stream(r)
    \/ \E r \in Reqs : sendmail(r)
    \/ \E r \in Reqs : sendmail_respond(r)
    \/ \E r \in Reqs : mail_resend(r)
    \/ \E r \in Reqs : mail_resend_send(r)
    \/ \E r \in Reqs : mail_resend_respond(r)
    \/ \E r \in Reqs : contacts_search(r)
    \/ \E r \in Reqs : contacts_search_respond(r)

Spec == Init /\ [][Next]_vars

\* Two requests in flight at once, their steps interleaved at every await,
\* over the routes of ConcurrentRoutes.  A request takes the lowest free slot.
NextConcurrent ==
    \/ \E r \in Reqs, route \in ConcurrentRoutes,
          cookie \in {NoKey, ForgedKey} \cup delivered :
         \E in \in Inputs(route) :
            /\ \A q \in Reqs : q < r => ~Free(q)
            /\ Request(r, route, cookie, in)
    \/ \E r \in Reqs : login(r)
    \/ \E r \in Reqs : login_save(r)
    \/ \E r \in Reqs : login_respond(r)
    \/ \E r \in Reqs : mail_mark_read(r)
    \/ \E r \in Reqs : mail_mark_read_update(r)
    \/ \E r \in Reqs : mail_mark_read_respond(r)

SpecConcurrent == Init /\ [][NextConcurrent]_vars

\* ------------------------------------------------------------ properties
Done(r) == reqs[r].pc = "done"
InFlight(r) == reqs[r].pc \notin {"idle", "done"}
\* The request of slot r takes a step of its handler.
Steps(r) == InFlight(r) /\ reqs'[r] # reqs[r]
\* The caller of request r is authenticated as account a.
Caller(r, a) == reqs[r].pc # "idle" /\ a # None /\ reqs[r].session = a
\* Key k has no server-side session carrying an account.
Unbound(k) == k = NoKey \/ sessions[k] = None

\* C1: on GET /api/mailbox/{id} and GET /api/mail/{id}, an authenticated
\* caller whose name differs from the stored 'account' of the resource gets
\* Forbidden and none of its content; content comes back only to the account
\* the resource belongs to.
C1_FetchOwnership ==
    \A r \in Reqs :
        (Done(r) /\ reqs[r].route \in {"mailbox", "mail"}
                 /\ reqs[r].session # None) =>
            LET stored == IF reqs[r].route = "mail" THEN mails[reqs[r].id]
                          ELSE mailboxes_db[reqs[r].id]
            IN  IF stored.account # reqs[r].session
                THEN reqs[r].status = 403 /\ reqs[r].body = Permission
                ELSE /\ reqs[r].status = 200
                     /\ reqs[r].body = [kind |-> reqs[r].route,
                                        id |-> reqs[r].id,
                                        owner |-> reqs[r].session]

C1_Witness ==
    \E r \in Reqs :
        /\ Done(r) /\ reqs[r].route = "mail" /\ Caller(r, "alice")
        /\ mails[reqs[r].id].account = "bob"
        /\ reqs[r].status = 403

\* C2: on the attachment download, an authenticated caller whose name differs
\* from the mail's stored 'account' is rejected and gets none of its bytes.
C2_AttachmentOwnership ==
    \A r \in Reqs :
        (Done(r) /\ reqs[r].route = "mail_download_attachment"
                 /\ reqs[r].session # None
                 /\ mails[reqs[r].id].account # reqs[r].session) =>
            reqs[r].status = 403 /\ reqs[r].body.kind # "attachment"

\* C3: once a GET /logout made with session key K has succeeded, the session
\* stored under K carries no account name.
C3_LogoutInvalidates == \A k \in loggedOut : sessions[k] = None

\* C4: a request to a session-protected route that carries no session_key, or
\* one no session is stored under, has an empty session, is answered
\* Forbidden by handle_no_auth, and its handler body makes no storage call
\* and sends no mail.
C4_NoSessionForbidden ==
    \A r \in Reqs :
        (reqs[r].pc # "idle" /\ reqs[r].route \in Protected
                             /\ Unbound(reqs[r].cookie)) =>
            /\ reqs[r].session = None
            /\ reqs[r].pc \in {"handler", "done"}
            /\ ~reqs[r].touched
            /\ reqs[r].effect = None
            /\ reqs[r].res = NoRes
            /\ Done(r) => reqs[r].status = 403 /\ reqs[r].body = handle_no_auth

C4_Witness ==
    /\ \E r \in Reqs :
         /\ Done(r) /\ reqs[r].route = "sendmail"
         /\ reqs[r].cookie = ForgedKey /\ reqs[r].status = 403
    /\ \E k \in Keys : sessions[k] # None

\* The response of /login, by what authenticate says of its credentials.
C5_LoginState ==
    \A r \in Reqs :
        (Done(r) /\ reqs[r].route = "login") =>
            LET user == authenticate(reqs[r].json)
            IN  IF user # None
                THEN /\ reqs[r].status = 200
                     /\ reqs[r].body = [kind |-> "account", id |-> 0,
                                        owner |-> user]
                     /\ reqs[r].set_cookie \in Keys
                     /\ sessions[reqs[r].set_cookie] = user
                ELSE /\ reqs[r].status = 403
                     /\ reqs[r].body = Failed
                     /\ reqs[r].key = NoKey
                     /\ Unbound(reqs[r].set_cookie)

\* A step of a /login whose credentials authenticate rejects.
C5_LoginStep ==
    \A r \in Reqs :
        (Steps(r) /\ reqs[r].route = "login"
                  /\ authenticate(reqs[r].json) = None) =>
            sessions' = sessions

\* C5: POST /login answers 200, with the account's profile and a session_key
\* cookie bound to that account, exactly when authenticate accepts the
\* credentials; otherwise it answers 403, returns no key bound to an account,
\* generates no key, and none of its steps changes the stored sessions.
C5_Login == [](C5_LoginState) /\ [][C5_LoginStep]_vars

C5_Witness ==
    \E r, q \in Reqs :
        /\ Done(r) /\ reqs[r].route = "login"
        /\ authenticate(reqs[r].json) = None /\ reqs[r].status = 403
        /\ reqs[q].route = "login" /\ reqs[q].pc = "acted"

\* C6: a request to a session-protected route that presents the key a
\* successful login of account A returned, and that no logout was made with,
\* sees A's session, is not rejected by handle_no_auth, and its handler runs
\* with account = A, whatever other sessions did in between.
C6_KeyAuthenticates ==
    \A r \in Reqs :
        (reqs[r].pc # "idle" /\ reqs[r].route \in Protected
            /\ reqs[r].cookie \in Keys
            /\ issuer[reqs[r].cookie] = "login"
            /\ reqs[r].cookie \notin loggedOut) =>
            LET a == issuedFor[reqs[r].cookie]
            IN  /\ a \in Accounts
                /\ reqs[r].session = a
                /\ reqs[r].pc # "handler" =>
                      /\ reqs[r].account = a
                      /\ reqs[r].body # handle_no_auth

C6_Witness ==
    \E r \in Reqs, k1, k2 \in Keys :
        /\ Done(r) /\ reqs[r].route = "sendmail" /\ reqs[r].cookie = k1
        /\ reqs[r].status = 200 /\ reqs[r].account = "alice"
        /\ k2 > k1 /\ sessions[k2] = "bob" /\ k2 \in delivered
        /\ issuedFor[k1] = "alice"

\* A mark_read or resend by a caller who does not own the mail.
C7_State ==
    \A r \in Reqs :
        (reqs[r].pc # "idle"
            /\ reqs[r].route \in {"mail_mark_read", "mail_resend"}
            /\ reqs[r].session # None
            /\ mails[reqs[r].id].account # reqs[r].session) =>
            /\ reqs[r].effect = None
            /\ reqs[r].pc # "acted"
            /\ Done(r) => reqs[r].status = 403 /\ reqs[r].body = Permission

\* A step of such a request.
C7_Step ==
    \A r \in Reqs :
        (Steps(r) /\ reqs[r].route \in {"mail_mark_read", "mail_resend"}
                  /\ reqs[r].session # None
                  /\ mails[reqs[r].id].account # reqs[r].session) =>
            mails' = mails

\* C7: mark_read and resend by an authenticated caller on a mail whose stored
\* 'account' differs from the caller's name are answered Forbidden, call
\* neither storage.update_mail nor resend_mail, and none of their steps
\* changes the stored mails.
C7_FailClosed == [](C7_State) /\ [][C7_Step]_vars

C7_Witness ==
    \E r \in Reqs :
        /\ Done(r) /\ reqs[r].route = "mail_mark_read" /\ Caller(r, "alice")
        /\ mails[reqs[r].id].account = "bob" /\ mails[reqs[r].id].unread
        /\ reqs[r].status = 403

\* The step of mail_mark_read that calls storage.update_mail.
C8_UpdateStep ==
    \A r \in Reqs :
        (At(r, "mail_mark_read", "got") /\ reqs'[r].pc = "acted") =>
            LET read == reqs[r].res
                i == reqs[r].id
            IN  /\ read.account = reqs[r].account
                /\ mails'[i] = [read EXCEPT !.unread = FALSE]
                /\ \A j \in MailIds \ {i} : mails'[j] = mails[j]
                /\ (~read.unread /\ mails[i] = read) => mails' = mails

C9_CookieIssuance ==
    /\ \A r \in Reqs :
         Done(r) =>
            LET byHandler ==
                  \/ /\ reqs[r].route = "login" /\ reqs[r].status = 200
                     /\ reqs[r].set_cookie = reqs[r].key
                     /\ issuer[reqs[r].key] = "login"
                  \/ /\ reqs[r].route = "logout" /\ reqs[r].status = 200
                     /\ reqs[r].cookie # NoKey
                     /\ issuer[reqs[r].set_cookie] = "logout"
            IN  /\ reqs[r].cookie = NoKey =>
                     /\ reqs[r].set_cookie \in Keys
                     /\ byHandler \/ issuer[reqs[r].set_cookie] = "middleware"
                     /\ (reqs[r].route = "login" /\ reqs[r].status = 200)
                           => byHandler
                /\ reqs[r].cookie # NoKey =>
                     reqs[r].set_cookie = NoKey \/ byHandler
    /\ \A k \in Keys : issuer[k] = "middleware" => sessions[k] = None

C9_Witness ==
    \E r \in Reqs, k \in Keys :
        /\ Done(r) /\ reqs[r].route = "login" /\ reqs[r].status = 200
        /\ reqs[r].cookie = NoKey /\ reqs[r].set_cookie = reqs[r].key
        /\ issuer[k] = "middleware" /\ k \in delivered

\* Where the stored sessions and the keys of the logins come from.
C10_State ==
    /\ \A k \in AllKeys :
         sessions[k] # None =>
            /\ k \in Keys
            /\ issuer[k] = "login"
            /\ issuedFor[k] = sessions[k]
    /\ \A r \in Reqs :
         (reqs[r].route = "login" /\ reqs[r].key # NoKey) =>
            /\ reqs[r].key # reqs[r].cookie
            /\ InFlight(r) => reqs[r].key \notin delivered
            /\ \A q \in Reqs \ {r} :
                 reqs[q].route = "login" => reqs[q].key # reqs[r].key

\* A stored session that carries an account keeps it.
C10_Step ==
    \A k \in AllKeys : sessions[k] # None => sessions'[k] = sessions[k]

\* C10: every stored session that carries an account name is stored under a
\* key a successful login generated for exactly that account; the key a login
\* generates is not the cookie its request presented, was delivered to no
\* client before the login's response, and differs from the key of every
\* other login; and the account stored under a key never changes.
C10_SessionBinding == [](C10_State) /\ [][C10_Step]_vars

C10_Witness ==
    \E r, q \in Reqs :
        /\ reqs[r].route = "login" /\ reqs[r].pc = "acted"
        /\ reqs[q].route = "login" /\ reqs[q].pc = "acted"
        /\ reqs[r].account = "alice" /\ reqs[q].account = "bob"
        /\ reqs[r].cookie = ForgedKey
        /\ sessions[reqs[r].key] = "alice" /\ sessions[reqs[q].key] = "bob"
====
